---- MODULE Spec2Model ----
(***************************************************************************)
(* Model of lambdalabs-cli: the scheduled-job registry of                  *)
(* src/lambdalabs_cli/scheduler.py (command synthesis, job annotations,    *)
(* the crontab held by one LambdaLabsScheduler) and the "instances ensure" *)
(* command of src/lambdalabs_cli/cli.py.                                   *)
(*                                                                         *)
(* Python strings are sequences of one-character strings, so that          *)
(* startswith, split, re.match and shlex.join are computed character by    *)
(* character, the way the code computes them.                              *)
(***************************************************************************)
EXTENDS Integers, Sequences, FiniteSets, TLC

VARIABLES
    cron,      \* scheduler.py:19  self.cron, the in-process table of this scheduler
    disk,      \* the user's persisted crontab (what cron.write() stores)
    last,      \* the outcome of the last registry operation
    now,       \* datetime.now() as read by add_time_based_termination
    synth,     \* input and outcome of the last _create_job_command call
    instances, \* provider state: the names of the listed instances, in launch order
    sshKeys,   \* provider state: TRUE when list_ssh_keys() is not empty
    host,      \* what "instances ensure" finds on its host: key file, options, config
    runs,      \* the executions of "instances ensure", one record each
    launchReqs,\* number of launch requests issued by all executions
    tag,       \* a comment built by _create_job_comment and what the registry parses from it
    http,      \* one call of LambdaLabsAPI._request: its loop position and what it did
    conf,      \* a Config object, its file, and what a Config constructed later reports
    term,      \* one "instances terminate-by-name" execution and the provider's listing
    cliRun     \* one invocation of the command line: its position and what it did

vars == <<cron, disk, last, now, synth, instances, sshKeys, host, runs, launchReqs, tag, http,
          conf, term, cliRun>>

regVars == <<cron, disk, last>>
ensVars == <<instances, sshKeys, host, runs, launchReqs>>
cliVars == <<conf, term, cliRun>>

(***************************************************************************)
(* Bounds of the model.                                                    *)
(***************************************************************************)
MaxJobs == 2      \* entries the in-process table may hold before add is disabled
MaxTimed == 1     \* entries the table may hold before add_time_based_termination is disabled
MaxStr == 2       \* length of the parameter values fed to _create_job_command
MaxRuns == 3      \* executions of "instances ensure"
MaxDesc == 3      \* pieces a description is put together from
MaxRetries == 3   \* largest value of the retries argument of _request
MaxShared == 1    \* entries the in-process table may hold next to another writer
MaxListed == 3    \* instances the provider lists to terminate-by-name

(***************************************************************************)
(* String helpers (str.startswith, str.split, str.replace).                *)
(***************************************************************************)
StartsWith(s, p) == Len(s) >= Len(p) /\ SubSeq(s, 1, Len(p)) = p

RECURSIVE FindFrom(_, _, _)
FindFrom(s, sep, i) ==
    IF i + Len(sep) - 1 > Len(s) THEN 0
    ELSE IF \A k \in 1..Len(sep) : s[i + k - 1] = sep[k] THEN i
    ELSE FindFrom(s, sep, i + 1)

\* str.find: the first index at which sep occurs in s, 0 when it does not
Find(s, sep) == FindFrom(s, sep, 1)

RECURSIVE Split(_, _, _)
\* str.split(sep, maxsplit); maxsplit = -1 splits at every occurrence
Split(s, sep, maxsplit) ==
    LET i == Find(s, sep)
    IN IF maxsplit = 0 \/ i = 0
       THEN <<s>>
       ELSE <<SubSeq(s, 1, i - 1)>> \o Split(SubSeq(s, i + Len(sep), Len(s)), sep, maxsplit - 1)

RECURSIVE Concat(_)
Concat(ss) == IF ss = <<>> THEN <<>> ELSE Head(ss) \o Concat(Tail(ss))

RECURSIVE JoinWith(_, _)
\* sep.join(parts)
JoinWith(parts, sep) ==
    IF parts = <<>> THEN <<>>
    ELSE IF Len(parts) = 1 THEN parts[1]
    ELSE parts[1] \o sep \o JoinWith(Tail(parts), sep)

(***************************************************************************)
(* Character classes of the allow-list patterns.                           *)
(***************************************************************************)
Lower == {"a","b","c","d","e","f","g","h","i","j","k","l","m",
          "n","o","p","q","r","s","t","u","v","w","x","y","z"}
Upper == {"A","B","C","D","E","F","G","H","I","J","K","L","M",
          "N","O","P","Q","R","S","T","U","V","W","X","Y","Z"}
Digit == {"0","1","2","3","4","5","6","7","8","9"}
Alnum == Lower \cup Upper \cup Digit

\* the backquote character (a TLA+ string cannot hold it, so it has a name)
Backquote == "BACKQUOTE"

\* the shell metacharacters of spec section 8: ; | & $ backquote " ' newline
ShellMeta == {";", "|", "&", "$", Backquote, "\"", "'", "\n"}

\* Python's re.match(r'^[cls]+$', s): "$" matches at the end of the string and
\* also just before a newline that ends the string.
MatchPlusDollar(s, cls) ==
    LET body == IF Len(s) > 0 /\ s[Len(s)] = "\n" THEN SubSeq(s, 1, Len(s) - 1) ELSE s
    IN Len(body) > 0 /\ \A i \in 1..Len(body) : body[i] \in cls

\* [cls]+ followed by more of the pattern: every character is in the class
MatchPlusFull(s, cls) == Len(s) > 0 /\ \A i \in 1..Len(s) : s[i] \in cls

(***************************************************************************)
(* Parameter validators, scheduler.py:22-47.                               *)
(***************************************************************************)
NameMaxLen == 64
TypeMaxLen == 32
RegionMaxLen == 32

ValidateInstanceName(name) ==
    IF name = <<>> THEN FALSE
    ELSE MatchPlusDollar(name, Alnum \cup {"-", "_"}) /\ Len(name) <= NameMaxLen

ValidateFilesystemName(name) ==
    IF name = <<>> THEN FALSE
    ELSE MatchPlusDollar(name, Alnum \cup {"-", "_"}) /\ Len(name) <= NameMaxLen

ValidateInstanceType(t) ==
    IF t = <<>> THEN FALSE
    ELSE MatchPlusDollar(t, Alnum \cup {"_"}) /\ Len(t) <= TypeMaxLen

\* re.match(r'^[a-z]+-[a-z]+-[0-9]+$', region): the classes exclude "-", so the
\* two separators are the first two hyphens
ValidateRegion(region) ==
    IF region = <<>> THEN FALSE
    ELSE LET parts == Split(region, <<"-">>, -1)
         IN /\ Len(parts) = 3
            /\ MatchPlusFull(parts[1], Lower)
            /\ MatchPlusFull(parts[2], Lower)
            /\ MatchPlusDollar(parts[3], Digit)
            /\ Len(region) <= RegionMaxLen

(***************************************************************************)
(* shlex.quote / shlex.join, used at scheduler.py:98.                      *)
(***************************************************************************)
ShlexSafe == Alnum \cup {"_", "@", "%", "+", "=", ":", ",", ".", "/", "-"}

RECURSIVE ReplaceQuote(_)
\* s.replace("'", "'\"'\"'")
ReplaceQuote(s) ==
    IF s = <<>> THEN <<>>
    ELSE (IF Head(s) = "'" THEN <<"'", "\"", "'", "\"", "'">> ELSE <<Head(s)>>)
         \o ReplaceQuote(Tail(s))

ShlexQuote(s) ==
    IF s = <<>> THEN <<"'", "'">>
    ELSE IF \A i \in 1..Len(s) : s[i] \in ShlexSafe THEN s
    ELSE <<"'">> \o ReplaceQuote(s) \o <<"'">>

ShlexJoin(cmd) == JoinWith([i \in 1..Len(cmd) |-> ShlexQuote(cmd[i])], <<" ">>)

(***************************************************************************)
(* Literals of scheduler.py.                                               *)
(***************************************************************************)
comment_prefix == <<"l","a","m","b","d","a","l","a","b","s","-","c","l","i">>
DashSep == <<" ","-"," ">>
ColonSep == <<":"," ">>
Unknown == <<"u","n","k","n","o","w","n">>

TerminateInstance == <<"t","e","r","m","i","n","a","t","e","_","i","n","s","t","a","n","c","e">>
TerminateInstanceByName == TerminateInstance \o <<"_","b","y","_","n","a","m","e">>
TerminateAll == <<"t","e","r","m","i","n","a","t","e","_","a","l","l">>
CreateInstance == <<"c","r","e","a","t","e","_","i","n","s","t","a","n","c","e">>
Actions == {TerminateInstance, TerminateInstanceByName, TerminateAll, CreateInstance}

\* sys.executable: fixed by the environment the scheduler runs in
ScriptPath == <<"/","u","s","r","/","b","i","n","/","p","y","t","h","o","n","3">>
CliModule == <<"l","a","m","b","d","a","l","a","b","s","_","c","l","i",".","c","l","i">>
BaseCmd == <<ScriptPath, <<"-","m">>, CliModule>>
WInstances == <<"i","n","s","t","a","n","c","e","s">>
WTerminate == <<"t","e","r","m","i","n","a","t","e">>
WTerminateByName == <<"t","e","r","m","i","n","a","t","e","-","b","y","-","n","a","m","e">>
WTerminateAll == <<"t","e","r","m","i","n","a","t","e","-","a","l","l">>
WYes == <<"-","-","y","e","s">>
WCreate == <<"c","r","e","a","t","e">>   \* the unconditional "instances create"
WEnsure == <<"e","n","s","u","r","e">>
WType == <<"-","-","t","y","p","e">>
WRegion == <<"-","-","r","e","g","i","o","n">>
WName == <<"-","-","n","a","m","e">>
WFilesystem == <<"-","-","f","i","l","e","s","y","s","t","e","m">>

(***************************************************************************)
(* _create_job_command, scheduler.py:52-98.  kw holds the keyword          *)
(* arguments; a key that was not passed reads as '' (kwargs.get(k, '')).   *)
(* The result is the raised error (err /= "none") or the argument list     *)
(* (argv) and its shlex.join (cmd).                                        *)
(***************************************************************************)
NoKw == [instance_id |-> <<>>, instance_name |-> <<>>, instance_type |-> <<>>,
         region |-> <<>>, name |-> <<>>, filesystem |-> <<>>]

Raise(e) == [err |-> e, argv |-> <<>>, cmd |-> <<>>]
Built(argv) == [err |-> "none", argv |-> argv, cmd |-> ShlexJoin(argv)]

CreateJobCommand(action, kw) ==
    IF action = TerminateInstance THEN
        IF ~MatchPlusDollar(kw.instance_id, Alnum \cup {"-"})
        THEN Raise("Invalid instance ID")
        ELSE Built(BaseCmd \o <<WInstances, WTerminate, kw.instance_id>>)
    ELSE IF action = TerminateInstanceByName THEN
        IF ~ValidateInstanceName(kw.instance_name)
        THEN Raise("Invalid instance name")
        ELSE Built(BaseCmd \o <<WInstances, WTerminateByName, kw.instance_name>>)
    ELSE IF action = TerminateAll THEN
        Built(BaseCmd \o <<WInstances, WTerminateAll, WYes>>)
    ELSE IF action = CreateInstance THEN
        IF ~ValidateInstanceType(kw.instance_type) THEN Raise("Invalid instance type")
        ELSE IF ~ValidateRegion(kw.region) THEN Raise("Invalid region")
        ELSE IF kw.name = <<>> THEN Raise("Instance name is required")
        ELSE IF ~ValidateInstanceName(kw.name) THEN Raise("Invalid instance name")
        ELSE IF kw.filesystem /= <<>> THEN
            IF ~ValidateFilesystemName(kw.filesystem)
            THEN Raise("Invalid filesystem name")
            ELSE Built(BaseCmd \o <<WInstances, WEnsure, WType, kw.instance_type,
                                    WRegion, kw.region, WName, kw.name,
                                    WFilesystem, kw.filesystem>>)
        ELSE Built(BaseCmd \o <<WInstances, WEnsure, WType, kw.instance_type,
                                WRegion, kw.region, WName, kw.name>>)
    ELSE Raise("Unknown action")

(***************************************************************************)
(* _create_job_comment, scheduler.py:100-103 (job_id always given by       *)
(* add_scheduled_job).                                                     *)
(***************************************************************************)
\* an annotation with the description ahead of the action
CreateJobCommentDescriptionFirst(action, description, job_id) ==
    comment_prefix \o ColonSep \o job_id \o DashSep \o description \o DashSep \o action

CreateJobComment(action, description, job_id) ==
    comment_prefix \o ColonSep \o job_id \o DashSep \o action \o DashSep \o description

(***************************************************************************)
(* The ownership test and the id extraction every registry operation       *)
(* repeats (scheduler.py:163-169, 184-188, 201-205, 214-218, 230).         *)
(***************************************************************************)
\* job.comment and job.comment.startswith(self.comment_prefix)
HasPrefix(comment) == comment /= <<>> /\ StartsWith(comment, comment_prefix)

\* the outcome of
\*     comment_parts = job.comment.split(" - ", 2)
\*     if len(comment_parts) >= 2: ... comment_parts[0].split(": ")[1]
\* "short": fewer than two parts; "raise": IndexError; "id": the id
ParseId(comment) ==
    LET comment_parts == Split(comment, DashSep, 2)
    IN IF Len(comment_parts) < 2 THEN [kind |-> "short", id |-> <<>>]
       ELSE LET head == Split(comment_parts[1], ColonSep, -1)
            IN IF Len(head) < 2 THEN [kind |-> "raise", id |-> <<>>]
               ELSE [kind |-> "id", id |-> head[2]]

(***************************************************************************)
(* datetime: the fields add_time_based_termination reads, timedelta        *)
(* addition, strptime("%H:%M") and replace().                              *)
(***************************************************************************)
IsLeap(y) == (y % 4 = 0 /\ y % 100 /= 0) \/ y % 400 = 0

DaysInMonth(y, m) ==
    IF m = 2 THEN (IF IsLeap(y) THEN 29 ELSE 28)
    ELSE IF m \in {4, 6, 9, 11} THEN 30 ELSE 31

RECURSIVE AddDays(_, _)
AddDays(d, k) ==
    IF k = 0 THEN d
    ELSE IF d.day < DaysInMonth(d.year, d.month)
         THEN AddDays([d EXCEPT !.day = @ + 1], k - 1)
    ELSE IF d.month < 12
         THEN AddDays([d EXCEPT !.day = 1, !.month = @ + 1], k - 1)
    ELSE AddDays([d EXCEPT !.day = 1, !.month = 1, !.year = @ + 1], k - 1)

\* d + timedelta(minutes=n), for n >= 0
AddMinutes(d, n) ==
    LET total == d.hour * 60 + d.minute + n
    IN AddDays([d EXCEPT !.hour = (total % 1440) \div 60, !.minute = total % 60],
               total \div 1440)

\* a.time() < b.time()
TimeLess(a, b) ==
    \/ a.hour < b.hour
    \/ a.hour = b.hour /\ a.minute < b.minute
    \/ a.hour = b.hour /\ a.minute = b.minute /\ a.second < b.second

DigitValue == [c \in Digit |-> CHOOSE n \in 0..9 : ToString(n) = c]

IsDigits(s) == \A i \in 1..Len(s) : s[i] \in Digit

NumberOf(s) ==
    IF Len(s) = 1 THEN DigitValue[s[1]] ELSE 10 * DigitValue[s[1]] + DigitValue[s[2]]

\* what strptime gives to the fields the format does not name
Epoch == [year |-> 1900, month |-> 1, day |-> 1, hour |-> 0, minute |-> 0, second |-> 0]

\* datetime.strptime(s, "%H:%M"): one or two digits up to 23, ":", one or two
\* digits up to 59, nothing else; ok = FALSE stands for its ValueError
Strptime(s) ==
    LET parts == Split(s, <<":">>, -1)
    IN IF /\ Len(parts) = 2
          /\ Len(parts[1]) \in {1, 2} /\ Len(parts[2]) \in {1, 2}
          /\ IsDigits(parts[1]) /\ IsDigits(parts[2])
          /\ NumberOf(parts[1]) <= 23 /\ NumberOf(parts[2]) <= 59
       THEN [ok |-> TRUE,
             dt |-> [Epoch EXCEPT !.hour = NumberOf(parts[1]), !.minute = NumberOf(parts[2])]]
       ELSE [ok |-> FALSE, dt |-> Epoch]

(***************************************************************************)
(* Optional arguments: None, or a given value.  Python's truth test treats *)
(* None, 0 and '' alike.                                                   *)
(***************************************************************************)
NoneStr == [given |-> FALSE, val |-> <<>>]
NoneInt == [given |-> FALSE, val |-> 0]
Some(v) == [given |-> TRUE, val |-> v]
TruthyStr(o) == o.given /\ o.val /= <<>>
TruthyInt(o) == o.given /\ o.val /= 0

FormatError == "Time must be in HH:MM format"
MissingError == "Must specify either duration_minutes or end_time"

\* add_time_based_termination, scheduler.py:128-142: the target time, or the
\* error raised.  replace(day=...) raises ValueError when the day does not
\* exist in the month of the value it is applied to, and line 139 catches it.
ResolveTarget(n, duration_minutes, end_time) ==
    IF TruthyInt(duration_minutes)
    THEN [err |-> "none", target |-> AddMinutes(n, duration_minutes.val)]
    ELSE IF TruthyStr(end_time)
    THEN LET p == Strptime(end_time.val)
         IN IF ~p.ok THEN [err |-> FormatError, target |-> n]
            ELSE IF TimeLess(p.dt, n)
            THEN IF n.day + 1 > DaysInMonth(p.dt.year, p.dt.month)
                 THEN [err |-> FormatError, target |-> n]
                 ELSE [err |-> "none", target |-> [p.dt EXCEPT !.day = n.day + 1]]
            ELSE [err |-> "none",
                  target |-> [p.dt EXCEPT !.year = n.year, !.month = n.month, !.day = n.day]]
    ELSE [err |-> MissingError, target |-> n]

\* scheduler.py:144: f"{minute} {hour} {day} {month} *", as its five fields
ScheduleOf(t) ==
    <<ToString(t.minute), ToString(t.hour), ToString(t.day), ToString(t.month), "*">>

(***************************************************************************)
(* The crontab.  An entry carries the four things the registry reads:      *)
(* comment, command, schedule (its whitespace-separated fields) and the    *)
(* enabled flag.  A table is a sequence of entries in file order.          *)
(***************************************************************************)
Entry(comment, command, schedule, enabled) ==
    [comment |-> comment, command |-> command, schedule |-> schedule, enabled |-> enabled]

\* the schedule of an entry CronTab.new() has just created
DefaultSchedule == <<"*", "*", "*", "*", "*">>

NumField(lo, hi) == {ToString(n) : n \in lo..hi} \cup {"*"}
MinuteField == NumField(0, 59)
HourField == NumField(0, 23)
DayField == NumField(1, 31)
MonthField == NumField(1, 12)
WeekdayField == NumField(0, 7)

\* job.setall(schedule) followed by job.is_valid(), scheduler.py:114-116:
\* five fields, each a number of its range or "*"
CronValid(schedule) ==
    /\ Len(schedule) = 5
    /\ schedule[1] \in MinuteField
    /\ schedule[2] \in HourField
    /\ schedule[3] \in DayField
    /\ schedule[4] \in MonthField
    /\ schedule[5] \in WeekdayField

(***************************************************************************)
(* Inputs of the registry operations.                                      *)
(***************************************************************************)
\* values uuid.uuid4() may give to str(...)[:8] (any id can be drawn again)
GenIds == {<<"a","1">>, <<"b","2">>}

\* ids a caller may pass to remove_job / enable_job / disable_job
ArgIds == GenIds \cup {<<"x">>, Unknown}

DailySchedule == <<"0", "18", "*", "*", "*">>
BadSchedule == <<"invalid", "schedule">>
Schedules == {DailySchedule, BadSchedule}

Descriptions == {<<"n">>}

Bogus == <<"d","e","l","e","t","e","_","e","v","e","r","y","t","h","i","n","g">>

AddCalls ==
    { <<TerminateAll, NoKw>>,
      <<TerminateInstance, [NoKw EXCEPT !.instance_id = <<"i",";">>]>>,
      <<TerminateInstance, NoKw>>,
      <<Bogus, NoKw>> }

\* entries of other tools: no comment, or a comment of another tool
ForeignPlain == Entry(<<>>, <<"b","a","c","k","u","p",".","s","h">>,
                      <<"0", "3", "*", "*", "*">>, TRUE)
ForeignOther == Entry(<<"o","t","h","e","r","-","a","p","p",":"," ","o","t","h","e","r"," ","j","o","b">>,
                      <<"o","t","h","e","r">>, <<"5", "4", "*", "*", "*">>, TRUE)
\* entries of other tools whose comment starts like the prefix:
\* "lambdalabs-cli-backup: x - y - z" and "lambdalabs-clients nightly"
LookBackup == Entry(comment_prefix \o <<"-","b","a","c","k","u","p",":"," ","x"," ","-"," ","y"," ","-"," ","z">>,
                    <<"r","s","y","n","c">>, <<"0", "2", "*", "*", "*">>, TRUE)
LookClients == Entry(comment_prefix \o <<"e","n","t","s"," ","n","i","g","h","t","l","y">>,
                     <<"m","a","i","l">>, <<"0", "1", "*", "*", "*">>, TRUE)
\* "lambdalabs-cli - x": the prefix, a " - ", and no ": " before it
NoColon == Entry(comment_prefix \o <<" ","-"," ","x">>,
                 <<"t","r","u","e">>, <<"0", "5", "*", "*", "*">>, TRUE)
\* an entry an earlier run of this tool has added
OwnedA == Entry(CreateJobComment(TerminateAll, <<"n">>, <<"a","1">>),
                CreateJobCommand(TerminateAll, NoKw).cmd, DailySchedule, FALSE)

InitEntries == {ForeignPlain, ForeignOther, LookBackup, LookClients, NoColon, OwnedA}

\* the crontab CronTab(user=True) reads when the scheduler is constructed
InitTables ==
    {<<>>} \cup {<<e>> : e \in InitEntries}
           \cup {<<ForeignPlain, OwnedA>>, <<OwnedA, ForeignOther>>, <<LookBackup, OwnedA>>,
                 <<ForeignOther, LookClients>>, <<OwnedA, NoColon>>, <<NoColon, OwnedA>>,
                 <<ForeignPlain, ForeignOther>>, <<ForeignOther, OwnedA, ForeignPlain>>}

(***************************************************************************)
(* Inputs of add_time_based_termination.  The callers modelled pass a      *)
(* description, so the default description text is not built.              *)
(***************************************************************************)
Dates == {<<2024, 6, 20>>, <<2024, 6, 30>>, <<2024, 1, 31>>, <<2024, 12, 31>>, <<2024, 2, 29>>}
Times == {<<14, 30, 0>>, <<14, 30, 30>>, <<23, 59, 0>>}
Nows == {[year |-> d[1], month |-> d[2], day |-> d[3],
          hour |-> t[1], minute |-> t[2], second |-> t[3]] : d \in Dates, t \in Times}

EndTimes == {NoneStr, Some(<<"1","4",":","2","9">>), Some(<<"1","4",":","3","0">>),
             Some(<<"1","4",":","3","1">>), Some(<<"2","3",":","5","9">>),
             Some(<<"2","5",":","0","0">>)}
Durations == {NoneInt, Some(0), Some(30), Some(1440)}
InstanceIds == {NoneStr, Some(<<>>), Some(<<"i","-","1">>)}

NoInput == [instance_id |-> NoneStr, duration_minutes |-> NoneInt, end_time |-> NoneStr]

(***************************************************************************)
(* Tabulations.  _create_job_command and the id extraction are computed    *)
(* once for every call and every comment the model can hold; the           *)
(* operations look the results up.                                         *)
(***************************************************************************)
AllCalls == AddCalls \cup
    {<<TerminateInstance, [NoKw EXCEPT !.instance_id = i.val]>> :
        i \in {x \in InstanceIds : TruthyStr(x)}}

CommandOf == [call \in AllCalls |-> CreateJobCommand(call[1], call[2])]

AllComments == {e.comment : e \in InitEntries} \cup
    {CreateJobComment(call[1], d, j) : call \in AllCalls, d \in Descriptions, j \in GenIds}

IdOf == [c \in AllComments |-> ParseId(c)]

\* removal by the position the entry has among the owned entries only
RemoveAtOwnedIndex(table, i) ==
    LET k == Len(SelectSeq(SubSeq(table, 1, i), LAMBDA e : HasPrefix(e.comment)))
    IN SubSeq(table, 1, k - 1) \o SubSeq(table, k + 1, Len(table))

RemoveAt(table, i) == SubSeq(table, 1, i - 1) \o SubSeq(table, i + 1, Len(table))

\* the iteration of list_jobs raises at the first prefixed entry whose id
\* extraction raises
ListRaises(table) == \E i \in 1..Len(table) :
    HasPrefix(table[i].comment) /\ IdOf[table[i].comment].kind = "raise"

JobOf(e) ==
    LET p == IdOf[e.comment]
    IN [id |-> IF p.kind = "id" THEN p.id ELSE Unknown,
        schedule |-> e.schedule, command |-> e.command,
        comment |-> e.comment, enabled |-> e.enabled]

\* list_jobs, scheduler.py:160-178 (its return value when it does not raise)
ListJobs(table) ==
    LET owned == SelectSeq(table, LAMBDA e : HasPrefix(e.comment))
    IN [i \in 1..Len(owned) |-> JobOf(owned[i])]

RECURSIVE ScanFrom(_, _, _)
\* the loop shared by remove_job / enable_job / disable_job
\* (scheduler.py:183-189, 200-206, 213-219): it ends at the first prefixed
\* entry whose id extraction raises ("raise") or whose id is job_id ("hit")
ScanFrom(table, job_id, i) ==
    IF i > Len(table) THEN [kind |-> "miss", idx |-> 0]
    ELSE IF ~HasPrefix(table[i].comment) THEN ScanFrom(table, job_id, i + 1)
    ELSE LET p == IdOf[table[i].comment]
         IN IF p.kind = "raise" THEN [kind |-> "raise", idx |-> i]
            ELSE IF p.kind = "id" /\ p.id = job_id THEN [kind |-> "hit", idx |-> i]
            ELSE ScanFrom(table, job_id, i + 1)

Scan(table, job_id) == ScanFrom(table, job_id, 1)

(***************************************************************************)
(* The record of the last operation: its name, the id passed or drawn, the *)
(* time-based inputs, the exception raised ("none": it returned), the      *)
(* returned value, the tables before it and the number of cron.write()     *)
(* calls it made; for an add, the action and the parameters it was given.  *)
(***************************************************************************)
NoOp == [op |-> "none", arg |-> <<>>, input |-> NoInput, raised |-> "none",
         ret |-> FALSE, count |-> 0, jobs |-> <<>>,
         pre |-> <<>>, preDisk |-> <<>>, writes |-> 0,
         action |-> <<>>, kw |-> NoKw]

Outcome(op, arg, input, raised, ret, count, jobs, writes) ==
    [op |-> op, arg |-> arg, input |-> input, raised |-> raised,
     ret |-> ret, count |-> count, jobs |-> jobs,
     pre |-> cron, preDisk |-> disk, writes |-> writes,
     action |-> <<>>, kw |-> NoKw]

(***************************************************************************)
(* Registry operations of one LambdaLabsScheduler.  cron.write() stores    *)
(* the whole in-process table.                                             *)
(***************************************************************************)
\* list_jobs, scheduler.py:160-178
ListJobsOp ==
    /\ last' = IF ListRaises(cron)
               THEN Outcome("list_jobs", <<>>, NoInput, "IndexError", FALSE, 0, <<>>, 0)
               ELSE Outcome("list_jobs", <<>>, NoInput, "none", TRUE, 0, ListJobs(cron), 0)
    /\ UNCHANGED <<cron, disk>>

\* remove_job on the table as stored at the moment of the call
RemoveJobReread(job_id) ==
    LET s == Scan(disk, job_id)
    IN IF s.kind = "hit"
       THEN /\ cron' = RemoveAt(disk, s.idx)
            /\ disk' = cron'
            /\ last' = Outcome("remove_job", job_id, NoInput, "none", TRUE, 0, <<>>, 1)
       ELSE /\ cron' = disk
            /\ UNCHANGED disk
            /\ last' = Outcome("remove_job", job_id, NoInput,
                               IF s.kind = "raise" THEN "IndexError" ELSE "none",
                               FALSE, 0, <<>>, 0)

\* remove_job, scheduler.py:180-197
RemoveJob(job_id) ==
    LET s == Scan(cron, job_id)
    IN IF s.kind = "hit"
       THEN /\ cron' = RemoveAt(cron, s.idx)
            /\ disk' = cron'
            /\ last' = Outcome("remove_job", job_id, NoInput, "none", TRUE, 0, <<>>, 1)
       ELSE /\ UNCHANGED <<cron, disk>>
            /\ last' = Outcome("remove_job", job_id, NoInput,
                               IF s.kind = "raise" THEN "IndexError" ELSE "none",
                               FALSE, 0, <<>>, 0)

\* enable_job / disable_job, scheduler.py:199-223
SetEnabled(op, job_id, flag) ==
    LET s == Scan(cron, job_id)
    IN IF s.kind = "hit"
       THEN /\ cron' = [cron EXCEPT ![s.idx].enabled = flag]
            /\ disk' = cron'
            /\ last' = Outcome(op, job_id, NoInput, "none", TRUE, 0, <<>>, 1)
       ELSE /\ UNCHANGED <<cron, disk>>
            /\ last' = Outcome(op, job_id, NoInput,
                               IF s.kind = "raise" THEN "IndexError" ELSE "none",
                               FALSE, 0, <<>>, 0)

EnableJob(job_id) == SetEnabled("enable_job", job_id, TRUE)

DisableJob(job_id) == SetEnabled("disable_job", job_id, FALSE)

\* clear_all_jobs, scheduler.py:225-240
ClearAllJobs ==
    LET kept == SelectSeq(cron, LAMBDA e : ~HasPrefix(e.comment))
        removed_count == Len(cron) - Len(kept)
    IN /\ cron' = kept
       /\ disk' = IF removed_count > 0 THEN cron' ELSE disk
       /\ last' = Outcome("clear_all_jobs", <<>>, NoInput, "none", TRUE, removed_count,
                          <<>>, IF removed_count > 0 THEN 1 ELSE 0)

\* add_scheduled_job with the entry created ahead of the command validation
AddJobInsertFirst(op, input, action, schedule, description, kw, job_id) ==
    LET c == CommandOf[<<action, kw>>]
        comment == CreateJobComment(action, description, job_id)
        Result(arg, raised, ret, writes) ==
            [Outcome(op, arg, input, raised, ret, 0, <<>>, writes)
                EXCEPT !.action = action, !.kw = kw]
    IN IF c.err /= "none" \/ ~CronValid(schedule)
       THEN /\ cron' = Append(cron, Entry(comment, c.cmd, DefaultSchedule, TRUE))
            /\ UNCHANGED disk
            /\ last' = Result(job_id, IF c.err /= "none" THEN c.err
                                      ELSE "Invalid cron schedule", FALSE, 0)
       ELSE /\ cron' = Append(cron, Entry(comment, c.cmd, schedule, TRUE))
            /\ disk' = cron'
            /\ last' = Result(job_id, "none", TRUE, 1)

\* add_scheduled_job, scheduler.py:105-122.  job_id is the value drawn by
\* uuid.uuid4() at line 108; op and input name the caller.
AddJob(op, input, action, schedule, description, kw, job_id) ==
    LET c == CommandOf[<<action, kw>>]
        comment == CreateJobComment(action, description, job_id)
        Result(arg, raised, ret, writes) ==
            [Outcome(op, arg, input, raised, ret, 0, <<>>, writes)
                EXCEPT !.action = action, !.kw = kw]
    IN IF c.err /= "none"
       THEN \* line 107 raises: no id is drawn, no entry is created
            /\ UNCHANGED <<cron, disk>>
            /\ last' = Result(<<>>, c.err, FALSE, 0)
       ELSE IF ~CronValid(schedule)
       THEN \* line 113 has already put the new entry into self.cron
            /\ cron' = Append(cron, Entry(comment, c.cmd, DefaultSchedule, TRUE))
            /\ UNCHANGED disk
            /\ last' = Result(job_id, "Invalid cron schedule", FALSE, 0)
       ELSE /\ cron' = Append(cron, Entry(comment, c.cmd, schedule, TRUE))
            /\ disk' = cron'
            /\ last' = Result(job_id, "none", TRUE, 1)

\* add_time_based_termination, scheduler.py:124-155
AddTimeBased(instance_id, duration_minutes, end_time, description, job_id) ==
    LET input == [instance_id |-> instance_id, duration_minutes |-> duration_minutes,
                  end_time |-> end_time]
        r == ResolveTarget(now, duration_minutes, end_time)
    IN IF r.err /= "none"
       THEN /\ UNCHANGED <<cron, disk>>
            /\ last' = Outcome("add_time_based_termination", <<>>, input, r.err,
                               FALSE, 0, <<>>, 0)
       ELSE IF TruthyStr(instance_id)
       THEN AddJob("add_time_based_termination", input, TerminateInstance,
                   ScheduleOf(r.target), description,
                   [NoKw EXCEPT !.instance_id = instance_id.val], job_id)
       ELSE AddJob("add_time_based_termination", input, TerminateAll,
                   ScheduleOf(r.target), description, NoKw, job_id)

(***************************************************************************)
(* Idle values of the parts a specification does not use.                  *)
(***************************************************************************)
NoNow == [year |-> 2024, month |-> 6, day |-> 20, hour |-> 14, minute |-> 30, second |-> 0]
Pending == Raise("pending")
NoSynth == [action |-> <<>>, kw |-> NoKw, res |-> Pending]

RegIdle == cron = <<>> /\ disk = <<>> /\ last = NoOp
NoHost == [publicKey |-> FALSE, filesystem |-> FALSE, defaultFs |-> FALSE]
EnsIdle == instances = <<>> /\ sshKeys = FALSE /\ host = NoHost /\ runs = <<>> /\ launchReqs = 0
NoTag == [action |-> <<>>, description |-> <<>>, job_id |-> <<>>,
          comment |-> <<>>, parts |-> <<>>, parsed |-> [kind |-> "pending", id |-> <<>>]]
TagIdle == tag = NoTag
NoHttp == [retries |-> 0, attempt |-> 0, pc |-> "idle", outcomes |-> <<>>,
           sleeps |-> <<>>, result |-> "none", payload |-> "none", actedAt |-> {}]
ApiIdle == http = NoHttp
NoConf == [mem |-> <<>>, file |-> <<>>, assigned |-> <<>>, seen |-> <<>>]
NoTerm == [listing |-> <<>>, instance_name |-> "", pc |-> "idle", listed |-> FALSE,
           requests |-> <<>>, printed |-> "none"]
NoCliRun == [api_key |-> "", group |-> "none", command |-> "none", pc |-> "idle",
             obj |-> {}, printed |-> <<>>, exit |-> "none", requests |-> 0, cronOps |-> 0,
             saved |-> "none"]
CliIdle == conf = NoConf /\ term = NoTerm /\ cliRun = NoCliRun

(***************************************************************************)
(* Spec: the registry operations on one scheduler.                         *)
(***************************************************************************)
Init ==
    /\ cron \in InitTables
    /\ disk = cron
    /\ last = NoOp
    /\ now = NoNow
    /\ synth = NoSynth
    /\ EnsIdle /\ TagIdle /\ ApiIdle /\ CliIdle

AddScheduledJob ==
    /\ Len(cron) < MaxJobs
    /\ \E call \in AddCalls, schedule \in Schedules, d \in Descriptions, job_id \in GenIds :
           AddJob("add_scheduled_job", NoInput, call[1], schedule, d, call[2], job_id)

Next ==
    \/ (ListJobsOp /\ UNCHANGED <<now, synth, ensVars, tag, http, cliVars>>)
    \/ (\E job_id \in ArgIds : RemoveJob(job_id) /\ UNCHANGED <<now, synth, ensVars, tag, http, cliVars>>)
    \/ (\E job_id \in ArgIds : EnableJob(job_id) /\ UNCHANGED <<now, synth, ensVars, tag, http, cliVars>>)
    \/ (\E job_id \in ArgIds : DisableJob(job_id) /\ UNCHANGED <<now, synth, ensVars, tag, http, cliVars>>)
    \/ (ClearAllJobs /\ UNCHANGED <<now, synth, ensVars, tag, http, cliVars>>)
    \/ (AddScheduledJob /\ UNCHANGED <<now, synth, ensVars, tag, http, cliVars>>)

Spec == Init /\ [][Next]_vars

(***************************************************************************)
(* SpecTime: add_time_based_termination on an empty crontab, at every      *)
(* modelled date and time.                                                 *)
(***************************************************************************)
InitTime ==
    /\ cron = <<>> /\ disk = <<>> /\ last = NoOp
    /\ now \in Nows
    /\ synth = NoSynth
    /\ EnsIdle /\ TagIdle /\ ApiIdle /\ CliIdle

AddTimeBasedTermination ==
    /\ Len(cron) < MaxTimed
    /\ \E i \in InstanceIds, dm \in Durations, et \in EndTimes,
          d \in Descriptions, job_id \in GenIds :
           AddTimeBased(i, dm, et, d, job_id)

NextTime == AddTimeBasedTermination /\ UNCHANGED <<now, synth, ensVars, tag, http, cliVars>>

SpecTime == InitTime /\ [][NextTime]_vars

(***************************************************************************)
(* SpecCmd: _create_job_command on every modelled action and parameter     *)
(* value.  One parameter is drawn from the strings of up to MaxStr         *)
(* characters (or a well-formed value followed by such a string); the      *)
(* others are well formed.                                                 *)
(***************************************************************************)
SynthChars == {"a", "1", "-", "_"} \cup ShellMeta

RECURSIVE StringsUpTo(_)
StringsUpTo(n) ==
    IF n = 0 THEN {<<>>}
    ELSE LET shorter == StringsUpTo(n - 1)
         IN shorter \cup {Append(s, c) : s \in shorter, c \in SynthChars}

Values == StringsUpTo(MaxStr)

GoodCreate == [NoKw EXCEPT !.instance_type = <<"g","p","u","_","1","x">>,
                           !.region = <<"u","s","-","s","o","u","t","h","-","1">>,
                           !.name = <<"w","s">>]

SynthCalls ==
    {<<TerminateAll, NoKw>>, <<Bogus, NoKw>>}
    \cup {<<TerminateInstance, [NoKw EXCEPT !.instance_id = v]>> : v \in Values}
    \cup {<<TerminateInstanceByName, [NoKw EXCEPT !.instance_name = v]>> : v \in Values}
    \cup {<<CreateInstance, [GoodCreate EXCEPT !.instance_type = v]>> : v \in Values}
    \cup {<<CreateInstance, [GoodCreate EXCEPT !.region = v]>> : v \in Values}
    \cup {<<CreateInstance, [GoodCreate EXCEPT !.region = @ \o v]>> : v \in Values}
    \cup {<<CreateInstance, [GoodCreate EXCEPT !.name = v]>> : v \in Values}
    \cup {<<CreateInstance, [GoodCreate EXCEPT !.filesystem = v]>> : v \in Values}

InitCmd ==
    /\ RegIdle /\ now = NoNow /\ EnsIdle /\ TagIdle /\ ApiIdle /\ CliIdle
    /\ synth \in {[action |-> call[1], kw |-> call[2], res |-> Pending] : call \in SynthCalls}

Synthesize ==
    /\ synth.res = Pending
    /\ synth' = [synth EXCEPT !.res = CreateJobCommand(synth.action, synth.kw)]
    /\ UNCHANGED <<regVars, now, ensVars, tag, http, cliVars>>

NextCmd == Synthesize

SpecCmd == InitCmd /\ [][NextCmd]_vars

(***************************************************************************)
(* SpecEnsure: executions of the synthesized create_instance command,      *)
(* "instances ensure --name x ...", cli.py:182-240, against one provider.  *)
(* cron starts an execution whenever an entry fires; executions run as     *)
(* separate processes, so their API calls interleave.  Every API call may  *)
(* raise, which ends the execution at line 239.                            *)
(***************************************************************************)
EnsureName == "x"

Run(pc, outcome, sawName, launched, overlapped) ==
    [pc |-> pc, outcome |-> outcome, sawName |-> sawName,
     launched |-> launched, overlapped |-> overlapped]

Active(r) == r.pc /= "done"

Finish(i, outcome) == runs' = [runs EXCEPT ![i].pc = "done", ![i].outcome = outcome]

InitEnsure ==
    /\ RegIdle /\ now = NoNow /\ synth = NoSynth /\ TagIdle /\ ApiIdle /\ CliIdle
    /\ instances \in {<<>>, <<"y">>, <<EnsureName>>}
    /\ sshKeys \in BOOLEAN
    /\ host \in [publicKey : BOOLEAN, filesystem : BOOLEAN, defaultFs : BOOLEAN]
    /\ runs = <<>>
    /\ launchReqs = 0

\* cron fires an entry: a new process enters ensure_instance
Fire ==
    /\ Len(runs) < MaxRuns
    /\ runs' = Append(runs, Run("list_instances", "running", FALSE, FALSE,
                                \E j \in 1..Len(runs) : Active(runs[j])))
    /\ UNCHANGED <<instances, sshKeys, host, launchReqs>>

\* an API call raises: except Exception, cli.py:239-240
ApiFails(i) ==
    /\ runs[i].pc \in {"list_instances", "list_ssh_keys", "add_ssh_key", "list_filesystems"}
    /\ Finish(i, "error")
    /\ UNCHANGED <<instances, sshKeys, host, launchReqs>>

\* ensure without its existence check (an unconditional create)
ListInstancesUnchecked(i) ==
    /\ runs[i].pc = "list_instances"
    /\ runs' = [runs EXCEPT ![i].pc = "list_ssh_keys"]
    /\ UNCHANGED <<instances, sshKeys, host, launchReqs>>

\* cli.py:195-201
ListInstances(i) ==
    /\ runs[i].pc = "list_instances"
    /\ IF \E k \in 1..Len(instances) : instances[k] = EnsureName
       THEN runs' = [runs EXCEPT ![i].pc = "done", ![i].outcome = "exists",
                                 ![i].sawName = TRUE]
       ELSE runs' = [runs EXCEPT ![i].pc = "list_ssh_keys"]
    /\ UNCHANGED <<instances, sshKeys, host, launchReqs>>

\* the step after the SSH key names are known, cli.py:219-227
AfterKeys == IF ~host.filesystem /\ host.defaultFs THEN "list_filesystems" ELSE "launch_instance"

\* cli.py:206-217
ListSshKeys(i) ==
    /\ runs[i].pc = "list_ssh_keys"
    /\ IF sshKeys THEN runs' = [runs EXCEPT ![i].pc = AfterKeys]
       ELSE IF host.publicKey THEN runs' = [runs EXCEPT ![i].pc = "add_ssh_key"]
       ELSE Finish(i, "no_ssh_key")
    /\ UNCHANGED <<instances, sshKeys, host, launchReqs>>

\* cli.py:214
AddSshKey(i) ==
    /\ runs[i].pc = "add_ssh_key"
    /\ sshKeys' = TRUE
    /\ runs' = [runs EXCEPT ![i].pc = AfterKeys]
    /\ UNCHANGED <<instances, host, launchReqs>>

\* cli.py:223
ListFilesystems(i) ==
    /\ runs[i].pc = "list_filesystems"
    /\ runs' = [runs EXCEPT ![i].pc = "launch_instance"]
    /\ UNCHANGED <<instances, sshKeys, host, launchReqs>>

\* cli.py:229-237: the launch request, accepted by the provider
LaunchInstance(i) ==
    /\ runs[i].pc = "launch_instance"
    /\ launchReqs' = launchReqs + 1
    /\ instances' = Append(instances, EnsureName)
    /\ runs' = [runs EXCEPT ![i].pc = "done", ![i].outcome = "created", ![i].launched = TRUE]
    /\ UNCHANGED <<sshKeys, host>>

\* cli.py:229-240: the launch request, refused by the provider
LaunchRefused(i) ==
    /\ runs[i].pc = "launch_instance"
    /\ launchReqs' = launchReqs + 1
    /\ runs' = [runs EXCEPT ![i].pc = "done", ![i].outcome = "error", ![i].launched = TRUE]
    /\ UNCHANGED <<instances, sshKeys, host>>

NextEnsure ==
    \/ (Fire /\ UNCHANGED <<regVars, now, synth, tag, http, cliVars>>)
    \/ (\E i \in 1..Len(runs) : ApiFails(i) /\ UNCHANGED <<regVars, now, synth, tag, http, cliVars>>)
    \/ (\E i \in 1..Len(runs) : ListInstances(i) /\ UNCHANGED <<regVars, now, synth, tag, http, cliVars>>)
    \/ (\E i \in 1..Len(runs) : ListSshKeys(i) /\ UNCHANGED <<regVars, now, synth, tag, http, cliVars>>)
    \/ (\E i \in 1..Len(runs) : AddSshKey(i) /\ UNCHANGED <<regVars, now, synth, tag, http, cliVars>>)
    \/ (\E i \in 1..Len(runs) : ListFilesystems(i) /\ UNCHANGED <<regVars, now, synth, tag, http, cliVars>>)
    \/ (\E i \in 1..Len(runs) : LaunchInstance(i) /\ UNCHANGED <<regVars, now, synth, tag, http, cliVars>>)
    \/ (\E i \in 1..Len(runs) : LaunchRefused(i) /\ UNCHANGED <<regVars, now, synth, tag, http, cliVars>>)

SpecEnsure == InitEnsure /\ [][NextEnsure]_vars

(***************************************************************************)
(* SpecTag: _create_job_comment (scheduler.py:100-103) for every action,   *)
(* a description put together from text, " - ", ": ", "-" and " ", and an  *)
(* id, followed by the parse the registry operations make of the comment   *)
(* (scheduler.py:165-167).                                                 *)
(***************************************************************************)
Pieces == {<<"n">>, DashSep, ColonSep, <<"-">>, <<" ">>}

RECURSIVE DescriptionsUpTo(_)
DescriptionsUpTo(n) ==
    IF n = 0 THEN {<<>>}
    ELSE LET shorter == DescriptionsUpTo(n - 1)
         IN shorter \cup {d \o piece : d \in shorter, piece \in Pieces}

TagDescriptions == DescriptionsUpTo(MaxDesc)

InitTag ==
    /\ RegIdle /\ now = NoNow /\ synth = NoSynth /\ EnsIdle /\ ApiIdle /\ CliIdle
    /\ tag \in {[NoTag EXCEPT !.action = a, !.description = d, !.job_id = j] :
                   a \in Actions, d \in TagDescriptions, j \in GenIds}

\* _create_job_comment, scheduler.py:100-103
CreateComment ==
    /\ tag.comment = <<>>
    /\ tag' = [tag EXCEPT !.comment = CreateJobComment(tag.action, tag.description, tag.job_id)]
    /\ UNCHANGED <<regVars, now, synth, ensVars, http, cliVars>>

\* comment_parts = job.comment.split(" - ", 2) and the id extraction,
\* scheduler.py:165-169
ParseComment ==
    /\ tag.comment /= <<>>
    /\ tag.parsed.kind = "pending"
    /\ tag' = [tag EXCEPT !.parts = Split(tag.comment, DashSep, 2),
                          !.parsed = ParseId(tag.comment)]
    /\ UNCHANGED <<regVars, now, synth, ensVars, http, cliVars>>

NextTag == CreateComment \/ ParseComment

SpecTag == InitTag /\ [][NextTag]_vars

(***************************************************************************)
(* SpecApi: one call of LambdaLabsAPI._request, api.py:20-68.  Every pass  *)
(* of the loop makes one session.request(); what comes back is a response  *)
(* (a status code and, for a success, a JSON payload) or an exception of    *)
(* requests.  http.outcomes lists what every attempt met, http.sleeps the  *)
(* arguments of time.sleep in order.                                       *)
(***************************************************************************)
\* response.raise_for_status() raises HTTPError for the 4xx and 5xx codes
Statuses == {200, 404, 499, 500, 503}
Payloads == {"p", "q"}
RaisesForStatus(status) == status >= 400

Response(status, payload) == [kind |-> "response", status |-> status, payload |-> payload]
Failure(kind) == [kind |-> kind, status |-> 0, payload |-> "none"]

\* the test of line 33 with no error taken for a client error
NeverClientError(status) == FALSE

\* api.py:33  response.status_code < 500
IsClientError(status) == status < 500

\* a wait of one second whatever the attempt
BackoffFlat(attempt) == 1

\* api.py:38, 47, 56  wait_time = 2 ** attempt
Backoff(attempt) == 2 ^ attempt

InitApi ==
    /\ RegIdle /\ now = NoNow /\ synth = NoSynth /\ EnsIdle /\ TagIdle /\ CliIdle
    /\ http \in {[NoHttp EXCEPT !.retries = r, !.pc = "loop"] : r \in 0..MaxRetries}

InLoop == http.pc = "loop" /\ http.attempt < http.retries

Met(outcome) == Append(http.outcomes, outcome)

\* lines 37-43, 46-52, 55-61: sleep and continue, or raise after the last attempt
RetryOrRaise(outcome, error) ==
    IF http.attempt < http.retries - 1
    THEN http' = [http EXCEPT !.outcomes = Met(outcome),
                              !.sleeps = Append(@, Backoff(http.attempt)),
                              !.attempt = @ + 1]
    ELSE http' = [http EXCEPT !.outcomes = Met(outcome), !.pc = "raised", !.result = error]

\* lines 26-29: the response passes raise_for_status, its JSON is returned
ResponseOk ==
    /\ InLoop
    /\ \E status \in Statuses, payload \in Payloads :
          /\ ~RaisesForStatus(status)
          /\ http' = [http EXCEPT !.outcomes = Met(Response(status, payload)),
                                  !.pc = "returned", !.result = "payload",
                                  !.payload = payload]
    /\ UNCHANGED <<regVars, now, synth, ensVars, tag, cliVars>>

\* lines 31-43: except HTTPError
ResponseHttpError ==
    /\ InLoop
    /\ \E status \in Statuses :
          /\ RaisesForStatus(status)
          /\ IF IsClientError(status)
             THEN http' = [http EXCEPT !.outcomes = Met(Response(status, "none")),
                                       !.pc = "raised", !.result = "HTTPError"]
             ELSE RetryOrRaise(Response(status, "none"), "HTTPError")
    /\ UNCHANGED <<regVars, now, synth, ensVars, tag, cliVars>>

\* lines 45-52: except ConnectionError
ConnectionFails ==
    /\ InLoop
    /\ RetryOrRaise(Failure("ConnectionError"), "ConnectionError")
    /\ UNCHANGED <<regVars, now, synth, ensVars, tag, cliVars>>

\* lines 54-61: except Timeout
TimesOut ==
    /\ InLoop
    /\ RetryOrRaise(Failure("Timeout"), "Timeout")
    /\ UNCHANGED <<regVars, now, synth, ensVars, tag, cliVars>>

\* lines 63-65: any other RequestException is raised at once
OtherRequestException ==
    /\ InLoop
    /\ http' = [http EXCEPT !.outcomes = Met(Failure("RequestException")),
                            !.pc = "raised", !.result = "RequestException"]
    /\ UNCHANGED <<regVars, now, synth, ensVars, tag, cliVars>>

\* lines 67-68: the loop ended without a return or a raise
LoopExhausted ==
    /\ http.pc = "loop"
    /\ http.attempt >= http.retries
    /\ http' = [http EXCEPT !.pc = "raised", !.result = "RuntimeError"]
    /\ UNCHANGED <<regVars, now, synth, ensVars, tag, cliVars>>

NextApi ==
    \/ ResponseOk
    \/ ResponseHttpError
    \/ ConnectionFails
    \/ TimesOut
    \/ OtherRequestException
    \/ LoopExhausted

SpecApi == InitApi /\ [][NextApi]_vars

(***************************************************************************)
(* SpecLaunch: the launch request of one "instances ensure" execution.     *)
(* cli.py:230 calls api.launch_instance, which sends its POST through      *)
(* _request with the default number of retries (api.py:90, 20).  The       *)
(* provider may process a request it received whatever the client then     *)
(* sees: a response, a 5xx of a gateway, a timeout or a broken connection. *)
(* http.actedAt holds the attempts whose request the provider processed.   *)
(***************************************************************************)
\* api.py:20  retries: int = 3
DefaultRetries == 3

InitLaunch ==
    /\ RegIdle /\ now = NoNow /\ synth = NoSynth /\ EnsIdle /\ TagIdle /\ CliIdle
    /\ http = [NoHttp EXCEPT !.retries = DefaultRetries, !.pc = "loop"]

\* the provider processes the POST of the current attempt: an instance is launched
ProviderProcesses ==
    /\ InLoop
    /\ http.attempt \notin http.actedAt
    /\ http' = [http EXCEPT !.actedAt = @ \cup {http.attempt}]
    /\ UNCHANGED <<regVars, now, synth, ensVars, tag, cliVars>>

\* a success response to a launch is the provider's answer after it acted
LaunchAccepted == http.attempt \in http.actedAt /\ ResponseOk

NextLaunch ==
    \/ ProviderProcesses
    \/ LaunchAccepted
    \/ ResponseHttpError
    \/ ConnectionFails
    \/ TimesOut
    \/ OtherRequestException

SpecLaunch == InitLaunch /\ [][NextLaunch]_vars

(***************************************************************************)
(* SpecShared: one scheduler next to another writer of the same user       *)
(* crontab.  The scheduler holds the table CronTab(user=True) read when it *)
(* was constructed (cron); the other writer (an editor, another tool,      *)
(* another run of this one) changes the stored table (disk) only.          *)
(***************************************************************************)
ExternalEntries == {ForeignOther, OwnedA}

SharedTables == {<<>>, <<OwnedA>>, <<ForeignPlain>>}

InitShared ==
    /\ cron \in SharedTables
    /\ disk = cron
    /\ last = NoOp
    /\ now = NoNow
    /\ synth = NoSynth
    /\ EnsIdle /\ TagIdle /\ ApiIdle /\ CliIdle

\* another writer appends an entry to the stored table
ExternalInsert(e) ==
    /\ Len(disk) <= MaxShared
    /\ disk' = Append(disk, e)
    /\ UNCHANGED <<cron, last>>

\* another writer deletes the i-th entry of the stored table
ExternalRemove(i) ==
    /\ i \in 1..Len(disk)
    /\ disk' = RemoveAt(disk, i)
    /\ UNCHANGED <<cron, last>>

AddSharedJob ==
    /\ Len(cron) < MaxShared
    /\ \E job_id \in GenIds :
           AddJob("add_scheduled_job", NoInput, TerminateAll, DailySchedule,
                  <<"n">>, NoKw, job_id)

NextShared ==
    \/ (ListJobsOp /\ UNCHANGED <<now, synth, ensVars, tag, http, cliVars>>)
    \/ (\E job_id \in GenIds : RemoveJob(job_id) /\ UNCHANGED <<now, synth, ensVars, tag, http, cliVars>>)
    \/ (\E job_id \in GenIds : EnableJob(job_id) /\ UNCHANGED <<now, synth, ensVars, tag, http, cliVars>>)
    \/ (\E job_id \in GenIds : DisableJob(job_id) /\ UNCHANGED <<now, synth, ensVars, tag, http, cliVars>>)
    \/ (ClearAllJobs /\ UNCHANGED <<now, synth, ensVars, tag, http, cliVars>>)
    \/ (AddSharedJob /\ UNCHANGED <<now, synth, ensVars, tag, http, cliVars>>)
    \/ (\E e \in ExternalEntries : ExternalInsert(e) /\ UNCHANGED <<now, synth, ensVars, tag, http, cliVars>>)
    \/ (\E i \in 1..(MaxShared + 1) : ExternalRemove(i) /\ UNCHANGED <<now, synth, ensVars, tag, http, cliVars>>)

SpecShared == InitShared /\ [][NextShared]_vars

(***************************************************************************)
(* SpecTerminate: one execution of "instances terminate-by-name",          *)
(* cli.py:134-161, against every modelled listing of the provider.  An     *)
(* instance is its id and its name (NoName: the listing gives none).       *)
(***************************************************************************)
NoName == "None"
InstanceNames == {"x", "y", NoName}
NameArguments == {"x", "y"}

Listings ==
    UNION {{[i \in 1..n |-> [id |-> i, name |-> f[i]]] : f \in [1..n -> InstanceNames]} :
           n \in 0..MaxListed}

InitTerminate ==
    /\ RegIdle /\ now = NoNow /\ synth = NoSynth /\ EnsIdle /\ TagIdle /\ ApiIdle
    /\ conf = NoConf /\ cliRun = NoCliRun
    /\ \E l \in Listings, n \in NameArguments :
          term = [NoTerm EXCEPT !.listing = l, !.instance_name = n, !.pc = "start"]

\* line 144  [inst for inst in instances if inst.get("name") == instance_name]
Matching(listed, instance_name) == SelectSeq(listed, LAMBDA inst : inst.name = instance_name)

\* the handler with the test of line 150 left out: the first match is terminated
TerminateFirstMatch(listOk, terminateOk) ==
    /\ term.pc = "start"
    /\ LET matching == Matching(term.listing, term.instance_name)
       IN IF ~listOk
          THEN term' = [term EXCEPT !.pc = "done", !.printed = "error"]
          ELSE IF matching = <<>>
          THEN term' = [term EXCEPT !.pc = "done", !.listed = TRUE, !.printed = "none found"]
          ELSE term' = [term EXCEPT !.pc = "done", !.listed = TRUE,
                                    !.requests = Append(@, matching[1].id),
                                    !.printed = IF terminateOk THEN "initiated" ELSE "error"]
    /\ UNCHANGED <<regVars, now, synth, ensVars, tag, http, conf, cliRun>>

\* terminate_instance_by_name, cli.py:134-161.  listOk and terminateOk tell
\* whether api.list_instances() and api.terminate_instance() return or raise.
TerminateInstanceByNameCmd(listOk, terminateOk) ==
    /\ term.pc = "start"
    /\ LET matching == Matching(term.listing, term.instance_name)
       IN IF ~listOk
          THEN \* line 143 raises, lines 160-161 print the error
               term' = [term EXCEPT !.pc = "done", !.printed = "error"]
          ELSE IF matching = <<>>
          THEN term' = [term EXCEPT !.pc = "done", !.listed = TRUE, !.printed = "none found"]
          ELSE IF Len(matching) > 1
          THEN term' = [term EXCEPT !.pc = "done", !.listed = TRUE, !.printed = "multiple"]
          ELSE term' = [term EXCEPT !.pc = "done", !.listed = TRUE,
                                    !.requests = Append(@, matching[1].id),
                                    !.printed = IF terminateOk THEN "initiated" ELSE "error"]
    /\ UNCHANGED <<regVars, now, synth, ensVars, tag, http, conf, cliRun>>

NextTerminate == \E listOk \in BOOLEAN, terminateOk \in BOOLEAN :
                     TerminateInstanceByNameCmd(listOk, terminateOk)

SpecTerminate == InitTerminate /\ [][NextTerminate]_vars

(***************************************************************************)
(* SpecConfig: one Config object, config.py:10-78, its file, and a Config  *)
(* constructed later from the same file.  A dictionary is a function from  *)
(* its keys; the file holds the TOML document as the dictionary toml.load  *)
(* returns for it.  toml.dump writes no key whose value is None.           *)
(***************************************************************************)
Fields == {"api_key", "ssh_dir", "default_filesystem"}
PyNone == "<None>"
Unset == "<unset>"
HomeSsh == "~/.ssh"

\* config.py:38  toml.dump(self._config, f)
TomlDump(d) == [k \in {f \in DOMAIN d : d[f] /= PyNone} |-> d[k]]

\* config.py:21  toml.load(self.config_file)
TomlLoad(document) == document

\* dict.get(key, default)
Get(d, key, default) == IF key \in DOMAIN d THEN d[key] ELSE default

\* config.py:45-51
default_config ==
    [k \in Fields |-> CASE k = "api_key" -> ""
                        [] k = "ssh_dir" -> HomeSsh
                        [] k = "default_filesystem" -> PyNone]

\* the three properties, config.py:53-55, 62-64, 71-73
Report(d) ==
    [k \in Fields |-> CASE k = "api_key" -> Get(d, "api_key", "")
                        [] k = "ssh_dir" -> Get(d, "ssh_dir", HomeSsh)
                        [] k = "default_filesystem" -> Get(d, "default_filesystem", PyNone)]

NothingAssigned == [k \in Fields |-> Unset]
NotConstructed == [k \in Fields |-> "<pending>"]

\* the files Config() may find: none (the defaults are saved, lines 28-31),
\* one written by hand with a single key, one holding all three
ExistingFiles ==
    { TomlDump(default_config),
      [k \in {"api_key"} |-> "k0"],
      [k \in Fields |-> CASE k = "api_key" -> "k0"
                          [] k = "ssh_dir" -> "d0"
                          [] k = "default_filesystem" -> "f0"] }

ApiKeys == {"", "k1", "k2"}
SshDirs == {"d1", "d2"}
Filesystems == {PyNone, "f1"}

InitConfig ==
    /\ RegIdle /\ now = NoNow /\ synth = NoSynth /\ EnsIdle /\ TagIdle /\ ApiIdle
    /\ term = NoTerm /\ cliRun = NoCliRun
    /\ \E document \in ExistingFiles :
          conf = [mem |-> TomlLoad(document), file |-> document,
                  assigned |-> NothingAssigned, seen |-> NotConstructed]

\* a setter that leaves the file as it is
AssignUnsaved(key, value) ==
    /\ conf' = [conf EXCEPT !.mem = [k \in DOMAIN @ \cup {key} |->
                                        IF k = key THEN value ELSE @[k]],
                            !.assigned[key] = value,
                            !.seen = NotConstructed]
    /\ UNCHANGED <<regVars, now, synth, ensVars, tag, http, term, cliRun>>

\* the setters, config.py:57-60, 66-69, 75-78: self._config[key] = value, self.save()
Assign(key, value) ==
    /\ LET mem == [k \in DOMAIN conf.mem \cup {key} |->
                      IF k = key THEN value ELSE conf.mem[k]]
       IN conf' = [conf EXCEPT !.mem = mem,
                               !.file = TomlDump(mem),
                               !.assigned[key] = value,
                               !.seen = NotConstructed]
    /\ UNCHANGED <<regVars, now, synth, ensVars, tag, http, term, cliRun>>

SetApiKey == \E value \in ApiKeys : Assign("api_key", value)
SetSshDir == \E value \in SshDirs : Assign("ssh_dir", value)
SetDefaultFilesystem == \E value \in Filesystems : Assign("default_filesystem", value)

\* Config() on the same file, config.py:11-21, and the reading of its properties
ConstructConfig ==
    /\ conf.seen = NotConstructed
    /\ conf' = [conf EXCEPT !.seen = Report(TomlLoad(conf.file))]
    /\ UNCHANGED <<regVars, now, synth, ensVars, tag, http, term, cliRun>>

NextConfig ==
    \/ SetApiKey
    \/ SetSshDir
    \/ SetDefaultFilesystem
    \/ ConstructConfig

SpecConfig == InitConfig /\ [][NextConfig]_vars

(***************************************************************************)
(* SpecCli: one invocation of the command line, cli.py.  The group         *)
(* callback cli() runs first, then the subcommand.  cliRun.obj holds the   *)
(* keys of ctx.obj, requests the API requests sent, cronOps the crontab    *)
(* operations (the read of CronTab(user=True) included), exit the exit     *)
(* status or the exception the invocation ended with.                      *)
(***************************************************************************)
ApiCommands ==
    ({"instances"} \X {"list", "create", "terminate", "terminate-by-name",
                       "terminate-all", "ensure"})
    \cup ({"filesystems"} \X {"list", "set-default", "create", "delete"})
    \cup {<<"info", "info">>}

ScheduleCommands ==
    {"schedule"} \X {"list", "add-termination", "add-startup",
                     "add-recurring-termination", "remove", "enable", "disable", "clear"}

ConfigCommands ==
    {"config"} \X {"set-api-key", "set-ssh-dir", "show", "get-api-key", "rotate"}

Commands == ApiCommands \cup ScheduleCommands \cup ConfigCommands

ConfiguredKeys == {"", "k"}

NoKeyMessage == "No API key configured"

InitCli ==
    /\ RegIdle /\ now = NoNow /\ synth = NoSynth /\ EnsIdle /\ TagIdle /\ ApiIdle
    /\ conf = NoConf /\ term = NoTerm
    /\ \E key \in ConfiguredKeys, c \in Commands :
          cliRun = [NoCliRun EXCEPT !.api_key = key, !.group = c[1], !.command = c[2],
                                    !.pc = "cli"]

\* a callback that lets every invocation through
NeverGated(invoked_subcommand, api_key) == FALSE

\* cli.py:22  ctx.invoked_subcommand != 'config' and not config.api_key
Gated(invoked_subcommand, api_key) == invoked_subcommand /= "config" /\ api_key = ""

\* an invocation ends: ctx.exit(code), a return (status 0) or an exception
\* no handler catches
Ends(run, printed, exit) ==
    [run EXCEPT !.pc = "done", !.printed = Append(@, printed), !.exit = exit]

\* cli(), cli.py:14-29
Cli ==
    /\ cliRun.pc = "cli"
    /\ IF Gated(cliRun.group, cliRun.api_key)
       THEN cliRun' = Ends([cliRun EXCEPT !.obj = {"config"}], NoKeyMessage, "1")
       ELSE cliRun' = [cliRun EXCEPT
                          !.obj = {"config", "scheduler"}
                                  \cup (IF cliRun.api_key /= "" THEN {"api"} ELSE {}),
                          !.cronOps = @ + 1,
                          !.pc = "command"]
    /\ UNCHANGED <<regVars, now, synth, ensVars, tag, http, conf, term>>

AtCommand(commands) ==
    cliRun.pc = "command" /\ <<cliRun.group, cliRun.command>> \in commands

\* the commands of instances and filesystems, and info: api = ctx.obj['api']
\* ahead of a try whose handler prints the error of a failed request
ApiCommand ==
    /\ AtCommand(ApiCommands)
    /\ IF "api" \notin cliRun.obj
       THEN cliRun' = Ends(cliRun, "KeyError: 'api'", "KeyError")
       ELSE \E printed \in {"result", "error"} :
               cliRun' = Ends([cliRun EXCEPT !.requests = @ + 1], printed, "0")
    /\ UNCHANGED <<regVars, now, synth, ensVars, tag, http, conf, term>>

\* the commands of schedule: scheduler = ctx.obj['scheduler'], one registry operation
ScheduleCommand ==
    /\ AtCommand(ScheduleCommands)
    /\ IF "scheduler" \notin cliRun.obj
       THEN cliRun' = Ends(cliRun, "KeyError: 'scheduler'", "KeyError")
       ELSE cliRun' = Ends([cliRun EXCEPT !.cronOps = @ + 1], "result", "0")
    /\ UNCHANGED <<regVars, now, synth, ensVars, tag, http, conf, term>>

\* set_api_key, cli.py:341-347
SetApiKeyCommand ==
    /\ AtCommand({<<"config", "set-api-key">>})
    /\ \E api_key \in {"k", "k2"} :
          cliRun' = Ends([cliRun EXCEPT !.saved = api_key], "API key updated successfully", "0")
    /\ UNCHANGED <<regVars, now, synth, ensVars, tag, http, conf, term>>

\* set_ssh_dir, cli.py:350-356
SetSshDirCommand ==
    /\ AtCommand({<<"config", "set-ssh-dir">>})
    /\ cliRun' = Ends(cliRun, "SSH directory set", "0")
    /\ UNCHANGED <<regVars, now, synth, ensVars, tag, http, conf, term>>

\* show_config, cli.py:359-381
ShowConfig ==
    /\ AtCommand({<<"config", "show">>})
    /\ cliRun' = Ends(cliRun, "Lambda Labs Configuration", "0")
    /\ UNCHANGED <<regVars, now, synth, ensVars, tag, http, conf, term>>

\* get_api_key, cli.py:384-392
GetApiKey ==
    /\ AtCommand({<<"config", "get-api-key">>})
    /\ cliRun' = IF cliRun.api_key /= ""
                 THEN Ends(cliRun, cliRun.api_key, "0")
                 ELSE Ends(cliRun, NoKeyMessage, "1")
    /\ UNCHANGED <<regVars, now, synth, ensVars, tag, http, conf, term>>

\* rotate_api_key, cli.py:395-411: api = ctx.obj['api'] stands ahead of the try
RotateApiKey ==
    /\ AtCommand({<<"config", "rotate">>})
    /\ IF "api" \notin cliRun.obj
       THEN cliRun' = Ends(cliRun, "KeyError: 'api'", "KeyError")
       ELSE \/ cliRun' = Ends([cliRun EXCEPT !.requests = @ + 1, !.saved = "k2"],
                              "API key rotated successfully", "0")
            \/ cliRun' = Ends([cliRun EXCEPT !.requests = @ + 1],
                              "Failed to rotate API key", "0")
            \/ cliRun' = Ends([cliRun EXCEPT !.requests = @ + 1],
                              "Error rotating API key", "0")
    /\ UNCHANGED <<regVars, now, synth, ensVars, tag, http, conf, term>>

NextCli ==
    \/ Cli
    \/ ApiCommand
    \/ ScheduleCommand
    \/ SetApiKeyCommand
    \/ SetSshDirCommand
    \/ ShowConfig
    \/ GetApiKey
    \/ RotateApiKey

SpecCli == InitCli /\ [][NextCli]_vars

(***************************************************************************)
(* Properties.                                                             *)
(***************************************************************************)
OwnedOf(table) == SelectSeq(table, LAMBDA e : HasPrefix(e.comment))
ForeignOf(table) == SelectSeq(table, LAMBDA e : ~HasPrefix(e.comment))

\* a comment that starts with the prefix text but not with "<prefix>: ", the
\* start of every annotation _create_job_comment builds
Lookalike(comment) ==
    HasPrefix(comment) /\ ~StartsWith(comment, comment_prefix \o ColonSep)
LookalikesOf(table) == SelectSeq(table, LAMBDA e : Lookalike(e.comment))

\* C1 -- Ownership isolation: on a table of N foreign entries (no comment, or
\* a comment that does not start with the prefix) and M owned entries,
\* list_jobs returns exactly the M owned entries in table order, and
\* clear_all_jobs returns M, removes exactly those M entries with a single
\* commit and leaves the N foreign entries unmodified and in order.
C1_OwnershipIsolation ==
    /\ last.op = "list_jobs" =>
          /\ last.raised = "none"
          /\ Len(last.jobs) = Len(OwnedOf(last.pre))
          /\ \A i \in 1..Len(last.jobs) :
                /\ last.jobs[i].comment = OwnedOf(last.pre)[i].comment
                /\ last.jobs[i].command = OwnedOf(last.pre)[i].command
    /\ last.op = "clear_all_jobs" =>
          /\ last.count = Len(OwnedOf(last.pre))
          /\ cron = ForeignOf(last.pre)
          /\ last.writes <= 1
          /\ last.count > 0 => (last.writes = 1 /\ disk = ForeignOf(last.pre))

\* C2 -- An entry whose annotation was not produced by this tool, even one
\* that starts with text that looks like the prefix ("lambdalabs-cli-backup:
\* x - y - z", "lambdalabs-clients nightly"), is never listed, enabled,
\* disabled or removed.
C2_LookalikeNeverTouched ==
    /\ (last.op = "list_jobs" /\ last.raised = "none") =>
          \A i \in 1..Len(last.jobs) : ~Lookalike(last.jobs[i].comment)
    /\ last.op \in {"remove_job", "enable_job", "disable_job", "clear_all_jobs"} =>
          LookalikesOf(cron) = LookalikesOf(last.pre)

\* C3 -- Parsing an annotation never throws: for every comment text on any
\* entry, list_jobs, remove_job, enable_job and disable_job complete without
\* raising.
C3_ParsingNeverThrows ==
    last.op \in {"list_jobs", "remove_job", "enable_job", "disable_job"} =>
        last.raised = "none"

\* C4 -- No partial application of add: when add_scheduled_job fails because
\* the schedule is not a valid cron expression, the rejected entry is neither
\* in the persisted table nor in the scheduler's in-process table.
C4_NoPartialAdd ==
    (last.op = "add_scheduled_job" /\ last.raised = "Invalid cron schedule") =>
        (cron = last.pre /\ disk = last.preDisk)

\* C5 -- Injection safety: _create_job_command rejects every parameter value
\* that contains a shell metacharacter (a single trailing newline included),
\* so no word of a synthesized command holds one.
C5_InjectionSafety ==
    synth.res.err = "none" =>
        \A w \in 1..Len(synth.res.argv) : \A i \in 1..Len(synth.res.argv[w]) :
            synth.res.argv[w][i] \notin ShellMeta

\* the date and time the spec resolves a well-formed end_time to: today at
\* that time if it has not yet passed, otherwise tomorrow's calendar date
ExpectedEndTime(n, hhmm) ==
    LET p == Strptime(hhmm).dt
        today == [n EXCEPT !.hour = p.hour, !.minute = p.minute, !.second = 0]
    IN IF TimeLess(p, n) THEN AddDays(today, 1) ELSE today

\* C6 -- Time resolution of end_time: for every current date-time and every
\* well-formed HH:MM, the one-shot schedule is pinned to minute, hour, day of
\* month and month of today if that time has not yet passed, otherwise of
\* tomorrow's calendar date (with month and year rollover).
C6_EndTimeResolution ==
    ( /\ last.op = "add_time_based_termination"
      /\ ~TruthyInt(last.input.duration_minutes)
      /\ TruthyStr(last.input.end_time)
      /\ Strptime(last.input.end_time.val).ok ) =>
        /\ last.raised = "none"
        /\ Len(cron) = Len(last.pre) + 1
        /\ cron[Len(cron)].schedule = ScheduleOf(ExpectedEndTime(now, last.input.end_time.val))

\* C7 -- add_time_based_termination requires exactly one of duration_minutes
\* and end_time: with neither or with both it fails with the
\* missing-parameter error and inserts and commits nothing.
C7_ExactlyOneTimeArgument ==
    ( /\ last.op = "add_time_based_termination"
      /\ last.input.duration_minutes.given = last.input.end_time.given ) =>
        /\ last.raised = MissingError
        /\ cron = last.pre /\ disk = last.preDisk /\ last.writes = 0

Sequential == \A r \in 1..Len(runs) : ~runs[r].overlapped
NoApiError == \A r \in 1..Len(runs) : runs[r].outcome /= "error"
SomeRunDone == \E r \in 1..Len(runs) : runs[r].pc = "done"
Created == {r \in 1..Len(runs) : runs[r].outcome = "created"}
Named == {k \in 1..Len(instances) : instances[k] = EnsureName}
\* the provider listed no instance of that name before the first execution
StartedWithout == Cardinality(Named) = Cardinality(Created)

C9_NoDuplicateLaunch == Cardinality(Created) <= 1

\* the entries that carry an annotation of this tool and the id in it
ToolEntries(table) ==
    {i \in 1..Len(table) : StartsWith(table[i].comment, comment_prefix \o ColonSep)
                           /\ IdOf[table[i].comment].kind = "id"}

\* C10 -- Job ids are unique among owned entries: after any sequence of
\* successful adds no two owned entries of the table carry the same id.
C10_UniqueIds ==
    \A i \in ToolEntries(disk) : \A j \in ToolEntries(disk) :
        i /= j => IdOf[disk[i].comment].id /= IdOf[disk[j].comment].id

C12_ForeignPreserved ==
    [][ForeignOf(disk') = ForeignOf(disk) /\ ForeignOf(cron') = ForeignOf(cron)]_vars

\* an owned entry has been removed from a table that keeps two foreign ones
C12_Witness ==
    /\ last.op \in {"remove_job", "clear_all_jobs"}
    /\ last.writes = 1
    /\ Len(last.pre) > Len(cron)
    /\ Len(ForeignOf(disk)) = 2
    /\ ForeignOf(disk) = ForeignOf(last.preDisk)

\* the positions of the owned entries of a table that carry the id
Carriers(table, job_id) ==
    {i \in 1..Len(table) : /\ HasPrefix(table[i].comment)
                           /\ IdOf[table[i].comment] = [kind |-> "id", id |-> job_id]}

\* C13 -- Idempotent lookup: remove_job / enable_job / disable_job with an id
\* no owned entry carries return false, and clear_all_jobs on a table without
\* owned entries returns 0; no entry is changed or removed and nothing is
\* committed.
C13_IdempotentLookup ==
    /\ ( /\ last.op \in {"remove_job", "enable_job", "disable_job"}
         /\ Carriers(last.pre, last.arg) = {} ) =>
           /\ last.raised = "none" /\ last.ret = FALSE
           /\ cron = last.pre /\ disk = last.preDisk /\ last.writes = 0
    /\ (last.op = "clear_all_jobs" /\ OwnedOf(last.pre) = <<>>) =>
           /\ last.raised = "none" /\ last.count = 0
           /\ cron = last.pre /\ disk = last.preDisk /\ last.writes = 0

\* C14 -- remove_job / enable_job / disable_job with an id an owned entry
\* carries return true, commit once and affect only the first entry with that
\* id: remove deletes it alone, enable / disable change only its enabled flag.
C14_FirstMatchOnly ==
    ( /\ last.op \in {"remove_job", "enable_job", "disable_job"}
      /\ Carriers(last.pre, last.arg) /= {} ) =>
        LET k == CHOOSE i \in Carriers(last.pre, last.arg) :
                     \A j \in Carriers(last.pre, last.arg) : i <= j
        IN /\ last.raised = "none" /\ last.ret = TRUE /\ last.writes = 1
           /\ last.op = "remove_job" =>
                 cron = SubSeq(last.pre, 1, k - 1) \o SubSeq(last.pre, k + 1, Len(last.pre))
           /\ last.op = "enable_job" => cron = [last.pre EXCEPT ![k].enabled = TRUE]
           /\ last.op = "disable_job" => cron = [last.pre EXCEPT ![k].enabled = FALSE]

\* C15 -- A successful add_scheduled_job inserts exactly one entry, commits
\* once and returns the id of that entry's annotation: right afterwards
\* list_jobs returns one more job than before, the new job has the returned
\* id and an annotation "<prefix>: <id> - <action> - <description>", the
\* persisted table has gained that entry alone, and remove_job(returned id)
\* returns true.
C15_AddInsertsOne ==
    (last.op = "add_scheduled_job" /\ last.raised = "none") =>
        LET e == cron[Len(cron)]
            parts == Split(e.comment, DashSep, 2)
        IN /\ Len(cron) = Len(last.pre) + 1
           /\ SubSeq(cron, 1, Len(last.pre)) = last.pre
           /\ last.writes = 1
           /\ disk = Append(last.preDisk, e)
           /\ Len(parts) = 3
           /\ parts[1] = comment_prefix \o ColonSep \o last.arg
           /\ parts[2] \in Actions
           /\ ~ListRaises(cron)
           /\ Len(ListJobs(cron)) = Len(OwnedOf(last.pre)) + 1
           /\ ListJobs(cron)[Len(ListJobs(cron))].id = last.arg
           /\ Scan(cron, last.arg).kind = "hit"

\* an add that came back with the error e and left both tables alone
RejectedWith(e) ==
    /\ last.raised = e /\ last.writes = 0
    /\ cron = last.pre /\ disk = last.preDisk

TableArguments(action, kw) ==
    IF action = TerminateInstance THEN
        <<<<"i","n","s","t","a","n","c","e","s">>, <<"t","e","r","m","i","n","a","t","e">>>> \o <<kw.instance_id>>
    ELSE IF action = TerminateInstanceByName THEN
        <<<<"i","n","s","t","a","n","c","e","s">>, <<"t","e","r","m","i","n","a","t","e","-","b","y","-","n","a","m","e">>>> \o <<kw.instance_name>>
    ELSE IF action = TerminateAll THEN
        <<<<"i","n","s","t","a","n","c","e","s">>, <<"t","e","r","m","i","n","a","t","e","-","a","l","l">>, <<"-","-","y","e","s">>>>
    ELSE <<<<"i","n","s","t","a","n","c","e","s">>, <<"e","n","s","u","r","e">>>>
         \o <<<<"-","-","t","y","p","e">>, kw.instance_type>>
         \o <<<<"-","-","r","e","g","i","o","n">>, kw.region>>
         \o <<<<"-","-","n","a","m","e">>, kw.name>>
         \o (IF kw.filesystem /= <<>>
             THEN <<<<"-","-","f","i","l","e","s","y","s","t","e","m">>, kw.filesystem>>
             ELSE <<>>)

C18_DurationResolution ==
    ( /\ last.op = "add_time_based_termination"
      /\ last.input.duration_minutes.given
      /\ ~last.input.end_time.given ) =>
        /\ last.raised = "none"
        /\ Len(cron) = Len(last.pre) + 1
        /\ cron[Len(cron)].schedule =
              ScheduleOf(AddMinutes(now, last.input.duration_minutes.val))

\* what an attempt met: a 4xx response, or one of the failures _request
\* is to retry (a 5xx response, a connection error, a timeout)
ClientClass(o) == o.kind = "response" /\ o.status >= 400 /\ o.status <= 499
ServerClass(o) == o.kind = "response" /\ o.status >= 500 /\ o.status <= 599
Retriable(o) == ServerClass(o) \/ o.kind \in {"ConnectionError", "Timeout"}
Succeeded(o) == o.kind = "response" /\ o.status < 400

\* C19 -- The HTTP client never retries a client-class failure: an attempt
\* that receives a 4xx response is the last one, no backoff sleep follows it
\* and the HTTP error is raised to the caller; a 4xx on the first attempt
\* means exactly one attempt and no sleep at all.
C19_NoRetryOnClientError ==
    \A i \in 1..Len(http.outcomes) :
        ClientClass(http.outcomes[i]) =>
            /\ i = Len(http.outcomes)
            /\ http.pc = "raised" /\ http.result = "HTTPError"
            /\ Len(http.sleeps) = i - 1

\* a 4xx met on a second attempt, after one retried failure
C19_Witness ==
    /\ Len(http.outcomes) = 2
    /\ Retriable(http.outcomes[1])
    /\ ClientClass(http.outcomes[2])
    /\ http.sleeps = <<1>>
    /\ http.pc = "raised"

\* C20 -- HTTP retry is bounded: over any sequence of 5xx / connection /
\* timeout outcomes _request makes at most `retries` attempts, sleeps 2^k
\* seconds after the k-th failed attempt (k from 0) and not after the last
\* one, returns the payload of the first successful attempt without further
\* attempts, otherwise raises the last failure; with retries >= 1 the
\* trailing RuntimeError is never raised.
C20_BoundedRetry ==
    LET n == Len(http.outcomes)
        failures == IF http.pc = "returned" THEN n - 1 ELSE n
        inScope == /\ \A i \in 1..failures : Retriable(http.outcomes[i])
                   /\ http.pc = "returned" => Succeeded(http.outcomes[n])
    IN /\ n <= http.retries
       /\ http.retries >= 1 => http.result /= "RuntimeError"
       /\ inScope =>
             /\ http.sleeps = [k \in 1..Len(http.sleeps) |-> 2 ^ (k - 1)]
             /\ http.pc = "loop" =>
                   (Len(http.sleeps) = n /\ (http.retries >= 1 => n < http.retries))
             /\ http.pc = "returned" =>
                   /\ Len(http.sleeps) = n - 1
                   /\ http.result = "payload"
                   /\ http.payload = http.outcomes[n].payload
             /\ (http.pc = "raised" /\ http.retries >= 1) =>
                   /\ n = http.retries
                   /\ Len(http.sleeps) = n - 1
                   /\ http.result = IF http.outcomes[n].kind = "response"
                                    THEN "HTTPError" ELSE http.outcomes[n].kind

\* three failed attempts of a call with three retries: sleeps of 1 s and 2 s
C20_Witness ==
    /\ http.retries = 3
    /\ http.pc = "raised"
    /\ Len(http.outcomes) = 3
    /\ \A i \in 1..3 : Retriable(http.outcomes[i])
    /\ http.sleeps = <<1, 2>>

\* C27 -- add_time_based_termination reports "Time must be in HH:MM format"
\* exactly when end_time does not parse as HH:MM: for a well-formed HH:MM it
\* resolves a target at every current date-time (the last day of a month and
\* a time already passed today included), for any other text it reports the
\* format error.
C27_FormatErrorExact ==
    ( /\ last.op = "add_time_based_termination"
      /\ ~TruthyInt(last.input.duration_minutes)
      /\ TruthyStr(last.input.end_time) ) =>
        (last.raised = FormatError <=> ~Strptime(last.input.end_time.val).ok)

\* C28 -- add_time_based_termination schedules a terminate_all job only when
\* no instance id is supplied: with any supplied value, the empty string
\* included, the outcome is a terminate_instance job for that id or an error,
\* never a terminate_all job.
C28_TerminateAllOnlyWithoutId ==
    ( /\ last.op = "add_time_based_termination"
      /\ last.input.instance_id.given
      /\ last.raised = "none" ) =>
        /\ last.action = TerminateInstance
        /\ last.kw.instance_id = last.input.instance_id.val

\* C30 -- list and the by-id operations agree: every job list_jobs returns
\* has an id extracted from its annotation, remove_job / enable_job /
\* disable_job with that id on the same table find an entry carrying it, and
\* clear_all_jobs would remove as many entries as list_jobs returned.
C30_ListAgreesWithById ==
    (last.op = "list_jobs" /\ last.raised = "none") =>
        /\ \A i \in 1..Len(last.jobs) :
              /\ IdOf[last.jobs[i].comment] = [kind |-> "id", id |-> last.jobs[i].id]
              /\ Scan(cron, last.jobs[i].id).kind = "hit"
              /\ Scan(cron, last.jobs[i].id).idx \in Carriers(cron, last.jobs[i].id)
        /\ Len(last.jobs) = Len(cron) - Len(SelectSeq(cron, LAMBDA e : ~HasPrefix(e.comment)))

\* C24 -- every registry operation observes the stored table as of the call:
\* list_jobs returns the jobs of the table stored at that moment, and
\* remove_job / enable_job / disable_job find an id exactly when the table
\* stored at that moment holds it.
C24_OperationsReread ==
    /\ (last.op = "list_jobs" /\ last.raised = "none") =>
           last.jobs = ListJobs(last.preDisk)
    /\ (last.op \in {"remove_job", "enable_job", "disable_job"} /\ last.raised = "none") =>
           (last.ret <=> Scan(last.preDisk, last.arg).kind = "hit")

\* the entries of a table, as a set
EntriesOf(table) == {table[i] : i \in 1..Len(table)}

\* a step in which the scheduler commits (one cron.write())
Commits == last' /= last /\ last'.writes = 1

\* C25 -- enumerate-then-commit is not atomic: when the scheduler commits,
\* what it stores is built from the table it read earlier, so a foreign entry
\* another writer put into the stored table since then is gone after the
\* commit.
C25_LostUpdate ==
    [][Commits =>
          \A e \in EntriesOf(disk) \ EntriesOf(cron) :
              ~HasPrefix(e.comment) => e \notin EntriesOf(disk')]_vars

\* a commit has just dropped the foreign entry another writer had inserted
C25_Witness ==
    /\ last.writes = 1
    /\ last.op \in {"remove_job", "enable_job", "disable_job", "clear_all_jobs",
                    "add_scheduled_job"}
    /\ ForeignOther \in EntriesOf(last.preDisk)
    /\ ForeignOther \notin EntriesOf(last.pre)
    /\ ForeignOther \notin EntriesOf(disk)

\* C29 -- one execution of the ensure command causes at most one launch to be
\* processed by the provider: the retry loop never sends the launch again
\* after an attempt the provider has acted on.
C29_AtMostOneLaunchProcessed == Cardinality(http.actedAt) <= 1

\* the positions of the listing whose instance has the given name
Namesakes == {i \in 1..Len(term.listing) : term.listing[i].name = term.instance_name}

\* C26 -- terminate-by-name issues a terminate request only when exactly one
\* listed instance has the given name, and then one request, for the id of
\* that instance; with no such instance or more than one it issues none.
C26_TerminateOnlyUniqueName ==
    term.pc = "done" =>
        IF term.listed /\ Cardinality(Namesakes) = 1
        THEN \E i \in Namesakes : term.requests = <<term.listing[i].id>>
        ELSE term.requests = <<>>

\* an execution that found the name once among other instances and asked
\* for that instance to be terminated
C26_Witness ==
    /\ term.pc = "done"
    /\ Len(term.listing) > 1
    /\ Cardinality(Namesakes) = 1
    /\ term.requests /= <<>>

\* C23 -- configuration persists across sessions: a Config constructed from
\* the same file after a sequence of assignments reports, for each of the
\* three fields assigned in it, the value assigned last.
C23_ConfigPersists ==
    conf.seen /= NotConstructed =>
        \A k \in Fields : conf.assigned[k] /= Unset => conf.seen[k] = conf.assigned[k]

\* a later Config reports all three fields after each was assigned, the
\* filesystem last set back to None
C23_Witness ==
    /\ conf.seen /= NotConstructed
    /\ conf.assigned = [k \in Fields |-> CASE k = "api_key" -> "k1"
                                           [] k = "ssh_dir" -> "d2"
                                           [] k = "default_filesystem" -> PyNone]
    /\ "default_filesystem" \notin DOMAIN conf.file

\* an invocation of a subcommand outside the config group with an empty key,
\* past the group callback
KeylessOutsideConfig ==
    cliRun.pc \in {"command", "done"} /\ cliRun.api_key = "" /\ cliRun.group /= "config"

\* C21 -- API key gate: with an empty API key every subcommand outside the
\* config group ends with status 1 after the "No API key configured"
\* message, with neither the API client nor the scheduler constructed and no
\* API request or crontab operation performed.
C21_ApiKeyGate ==
    KeylessOutsideConfig =>
        /\ cliRun.pc = "done"
        /\ cliRun.exit = "1"
        /\ cliRun.printed = <<NoKeyMessage>>
        /\ cliRun.obj \cap {"api", "scheduler"} = {}
        /\ cliRun.requests = 0
        /\ cliRun.cronOps = 0

\* "instances ensure" was stopped at the gate
C21_Witness ==
    /\ KeylessOutsideConfig
    /\ cliRun.group = "instances" /\ cliRun.command = "ensure"
    /\ cliRun.exit = "1"

\* C22 -- config commands work without an API key: with an empty key every
\* subcommand of the config group ends with its own outcome (status 0, or
\* status 1 of get-api-key), never with an exception no handler catches.
C22_ConfigWithoutKey ==
    (cliRun.pc = "done" /\ cliRun.api_key = "" /\ cliRun.group = "config") =>
        cliRun.exit \in {"0", "1"}

====
